---- MODULE Spec2Model ----
(***************************************************************************)
(* Model of apps/desktop/main/agent-manager.ts: the AgentManager lifecycle *)
(* wrapper around the MCP Client and StdioClientTransport collaborators.   *)
(*                                                                         *)
(* Every async method is split at its single await: the Begin action is    *)
(* the synchronous prefix up to and including the collaborator call, the   *)
(* Resume action is the continuation run when the collaborator's promise   *)
(* settles.  The collaborators are external, so each settles with any      *)
(* outcome its interface allows (resolve, or reject with an error).        *)
(***************************************************************************)
EXTENDS Integers, Sequences, FiniteSets, TLC

\* ---------------------------------------------------------------- bounds
MaxCalls == 3       \* method invocations on the one AgentManager instance
MaxContent == 2     \* length of a callTool result's content sequence

\* ------------------------------------------------------- values and inputs
null == 0                               \* the null of client / transport
undefined == "undefined"                \* the value of a bare return
TypeError == "TypeError"                \* fault of reading .text of undefined
Errors == {"e1", "e2"}                  \* error objects a collaborator rejects with
ContentItems ==
    { [type |-> "text", text |-> "pong"],
      [type |-> "image", text |-> undefined] }
Contents ==
    UNION { [1..n -> ContentItems] : n \in 0..MaxContent }

projectRoot == <<"__dirname", "../../..">>
pythonPath == projectRoot \o <<"agents/transcriber/.venv/bin/python">>
scriptPath == projectRoot \o <<"agents/transcriber/main.py">>

VARIABLES
    client,        \* this.client: null or the handle of a Client
    transport,     \* this.transport: null or the handle of a transport
    transports,    \* every StdioClientTransport constructed, by handle
    clients,       \* every Client constructed, by handle
    calls          \* every invocation of start/pingAgent/stop, in call order

vars == <<client, transport, transports, clients, calls>>

\* ------------------------------------------------------------ log lines
Line(level, msg, arg) == [level |-> level, msg |-> msg, arg |-> arg]

\* ----------------------------------------------------- invocation records
\* pc: "awaitConnect" | "awaitCallTool" | "awaitClose" | "done"
\* status: "pending" | "fulfilled" | "rejected" (the promise the caller holds)
\* awaited: "none" | "pending" | "resolved" | "rejected" (the collaborator's promise)
NewCall(op) ==
    [ op |-> op, pc |-> "done", status |-> "pending", value |-> undefined,
      log |-> <<>>, tr |-> null, cl |-> null,
      pyExists |-> TRUE, scExists |-> TRUE,
      awaited |-> "none", err |-> undefined, content |-> <<>> ]

\* ------------------------------------------------------------- start()
startChecks(pyExists, scExists) ==
    (IF ~pyExists
       THEN << Line("error", "Critical Error: Python not found at", pythonPath),
               Line("error", "Run uv sync in agents/transcriber/ to create the venv.", <<>>) >>
       ELSE <<>>)
    \o
    (IF ~scExists
       THEN << Line("error", "Critical Error: Script not found at", scriptPath) >>
       ELSE <<>>)

startPrefixLog ==
    << Line("log", "Starting Transcriber Agent...", <<>>),
       Line("log", "Python:", pythonPath),
       Line("log", "Script:", scriptPath) >>

newTransport ==
    [ command |-> pythonPath, args |-> <<scriptPath>>, closeCalls |-> 0 ]

newClient ==
    [ name |-> "electron-host", version |-> "1.0.0", capabilities |-> {},
      connectCalls |-> <<>>, toolCalls |-> <<>>, connected |-> FALSE ]

\* start() returning early when a prerequisite file is missing
StartBegin_abortOnMissing(pyExists, scExists) ==
    /\ Len(calls) < MaxCalls
    /\ IF pyExists /\ scExists
         THEN LET t == Len(transports) + 1
                  c == Len(clients) + 1
              IN /\ transports' = Append(transports, newTransport)
                 /\ clients' = Append(clients,
                                  [newClient EXCEPT !.connectCalls = <<t>>])
                 /\ transport' = t
                 /\ client' = c
                 /\ calls' = Append(calls,
                       [NewCall("start") EXCEPT
                           !.pc = "awaitConnect",
                           !.log = startPrefixLog \o startChecks(pyExists, scExists),
                           !.tr = t, !.cl = c,
                           !.pyExists = pyExists, !.scExists = scExists,
                           !.awaited = "pending"])
         ELSE /\ calls' = Append(calls,
                       [NewCall("start") EXCEPT
                           !.log = startPrefixLog \o startChecks(pyExists, scExists),
                           !.pyExists = pyExists, !.scExists = scExists,
                           !.status = "fulfilled", !.value = undefined])
              /\ UNCHANGED <<client, transport, transports, clients>>

\* start() closing the transport it is about to replace
StartBegin_closesPrevious(pyExists, scExists) ==
    /\ Len(calls) < MaxCalls
    /\ LET t == Len(transports) + 1
           c == Len(clients) + 1
           closed == IF transport # null
                       THEN [transports EXCEPT ![transport].closeCalls = @ + 1]
                       ELSE transports
       IN /\ transports' = Append(closed, newTransport)
          /\ clients' = Append(clients,
                           [newClient EXCEPT !.connectCalls = <<t>>])
          /\ transport' = t
          /\ client' = c
          /\ calls' = Append(calls,
                [NewCall("start") EXCEPT
                    !.pc = "awaitConnect",
                    !.log = startPrefixLog \o startChecks(pyExists, scExists),
                    !.tr = t, !.cl = c,
                    !.pyExists = pyExists, !.scExists = scExists,
                    !.awaited = "pending"])

StartBegin(pyExists, scExists) ==
    /\ Len(calls) < MaxCalls
    /\ LET t == Len(transports) + 1
           c == Len(clients) + 1
       IN /\ transports' = Append(transports, newTransport)
          /\ clients' = Append(clients,
                           [newClient EXCEPT !.connectCalls = <<t>>])
          /\ transport' = t
          /\ client' = c
          /\ calls' = Append(calls,
                [NewCall("start") EXCEPT
                    !.pc = "awaitConnect",
                    !.log = startPrefixLog \o startChecks(pyExists, scExists),
                    !.tr = t, !.cl = c,
                    !.pyExists = pyExists, !.scExists = scExists,
                    !.awaited = "pending"])

\* start() with the catch block rethrowing the connect error
startSettled_rethrow(call, outcome) ==
    IF outcome = "ok"
      THEN [call EXCEPT !.pc = "done", !.awaited = "resolved",
                        !.log = @ \o <<Line("log", "Connected to Transcriber Agent!", <<>>)>>,
                        !.status = "fulfilled", !.value = undefined]
      ELSE [call EXCEPT !.pc = "done", !.awaited = "rejected", !.err = outcome,
                        !.log = @ \o <<Line("error", "Connection failed:", <<outcome>>)>>,
                        !.status = "rejected", !.value = outcome]

\* the continuation of start() once connect has settled with outcome
startSettled(call, outcome) ==
    IF outcome = "ok"
      THEN [call EXCEPT !.pc = "done", !.awaited = "resolved",
                        !.log = @ \o <<Line("log", "Connected to Transcriber Agent!", <<>>)>>,
                        !.status = "fulfilled", !.value = undefined]
      ELSE [call EXCEPT !.pc = "done", !.awaited = "rejected", !.err = outcome,
                        !.log = @ \o <<Line("error", "Connection failed:", <<outcome>>)>>,
                        !.status = "fulfilled", !.value = undefined]

\* start() storing its handles in the fields only once connect has settled
StartResume_assignsLate(i, outcome) ==
    /\ calls[i].op = "start"
    /\ calls[i].pc = "awaitConnect"
    /\ calls' = [calls EXCEPT ![i] = startSettled(calls[i], outcome)]
    /\ clients' = [clients EXCEPT ![calls[i].cl].connected = (outcome = "ok")]
    /\ client' = calls[i].cl
    /\ transport' = calls[i].tr
    /\ UNCHANGED transports

\* start() closing its transport in the catch block
StartResume_closesOnFailure(i, outcome) ==
    /\ calls[i].op = "start"
    /\ calls[i].pc = "awaitConnect"
    /\ calls' = [calls EXCEPT ![i] = startSettled(calls[i], outcome)]
    /\ clients' = [clients EXCEPT ![calls[i].cl].connected = (outcome = "ok")]
    /\ transports' = IF outcome = "ok"
                       THEN transports
                       ELSE [transports EXCEPT ![calls[i].tr].closeCalls = @ + 1]
    /\ UNCHANGED <<client, transport>>

\* start() resetting both fields in the catch block
StartResume_resetOnFailure(i, outcome) ==
    /\ calls[i].op = "start"
    /\ calls[i].pc = "awaitConnect"
    /\ calls' = [calls EXCEPT ![i] = startSettled(calls[i], outcome)]
    /\ clients' = [clients EXCEPT ![calls[i].cl].connected = (outcome = "ok")]
    /\ client' = IF outcome = "ok" THEN client ELSE null
    /\ transport' = IF outcome = "ok" THEN transport ELSE null
    /\ UNCHANGED transports

StartResume(i, outcome) ==
    /\ calls[i].op = "start"
    /\ calls[i].pc = "awaitConnect"
    /\ calls' = [calls EXCEPT ![i] = startSettled(calls[i], outcome)]
    /\ clients' = [clients EXCEPT ![calls[i].cl].connected = (outcome = "ok")]
    /\ UNCHANGED <<client, transport, transports>>

\* ----------------------------------------------------------- pingAgent()
ClientNotInitialized == "Client not initialized"

pingNoClient(c) == c = null

PingRequest == [name |-> "ping", arguments |-> {}]

\* pingAgent() without the null check: calling callTool on null faults
PingBegin_noGuard ==
    /\ Len(calls) < MaxCalls
    /\ IF client = null
         THEN /\ calls' = Append(calls,
                    [NewCall("ping") EXCEPT
                        !.log = <<Line("log", "Sending 'ping' tool call...", <<>>),
                                  Line("error", "Ping failed:", <<TypeError>>)>>,
                        !.status = "rejected",
                        !.value = TypeError])
              /\ UNCHANGED clients
         ELSE /\ clients' = [clients EXCEPT
                    ![client].toolCalls = Append(@, PingRequest)]
              /\ calls' = Append(calls,
                    [NewCall("ping") EXCEPT
                        !.pc = "awaitCallTool",
                        !.log = <<Line("log", "Sending 'ping' tool call...", <<>>)>>,
                        !.cl = client,
                        !.awaited = "pending"])
    /\ UNCHANGED <<client, transport, transports>>

PingBegin ==
    /\ Len(calls) < MaxCalls
    /\ IF pingNoClient(client)
         THEN /\ calls' = Append(calls,
                    [NewCall("ping") EXCEPT
                        !.status = "fulfilled",
                        !.value = ClientNotInitialized])
              /\ UNCHANGED clients
         ELSE /\ clients' = [clients EXCEPT
                    ![client].toolCalls = Append(@, PingRequest)]
              /\ calls' = Append(calls,
                    [NewCall("ping") EXCEPT
                        !.pc = "awaitCallTool",
                        !.log = <<Line("log", "Sending 'ping' tool call...", <<>>)>>,
                        !.cl = client,
                        !.awaited = "pending"])
    /\ UNCHANGED <<client, transport, transports>>

\* the collaborator's callTool promise settles: resolved with a result, or rejected
CallToolOutcomes ==
    { [kind |-> "resolved", content |-> c, err |-> undefined] : c \in Contents }
    \cup
    { [kind |-> "rejected", content |-> <<>>, err |-> e] : e \in Errors }

\* a catch block that throws a new error wrapping the caught one
pingCaught_wrapped(call, error) ==
    [call EXCEPT !.pc = "done",
                 !.log = @ \o <<Line("error", "Ping failed:", <<error>>)>>,
                 !.status = "rejected", !.value = "Error: ping failed"]

\* what the catch block of pingAgent does with a thrown error
pingCaught(call, error) ==
    [call EXCEPT !.pc = "done",
                 !.log = @ \o <<Line("error", "Ping failed:", <<error>>)>>,
                 !.status = "rejected", !.value = error]

\* extraction reading the last content element instead of the first
pingExtract_last(call, content) ==
    IF Len(content) = 0
      THEN pingCaught(call, TypeError)
      ELSE [call EXCEPT !.pc = "done",
                        !.log = @ \o <<Line("log", "Received:", <<content[Len(content)].text>>)>>,
                        !.status = "fulfilled", !.value = content[Len(content)].text]

\* extraction with optional chaining: result.content[0]?.text
pingExtract_optional(call, content) ==
    IF Len(content) = 0
      THEN [call EXCEPT !.pc = "done",
                        !.log = @ \o <<Line("log", "Received:", <<undefined>>)>>,
                        !.status = "fulfilled", !.value = undefined]
      ELSE [call EXCEPT !.pc = "done",
                        !.log = @ \o <<Line("log", "Received:", <<content[1].text>>)>>,
                        !.status = "fulfilled", !.value = content[1].text]

\* the body of the try block after the await: result.content[0].text
pingExtract(call, content) ==
    IF Len(content) = 0
      THEN pingCaught(call, TypeError)
      ELSE [call EXCEPT !.pc = "done",
                        !.log = @ \o <<Line("log", "Received:", <<content[1].text>>)>>,
                        !.status = "fulfilled", !.value = content[1].text]

pingSettled(call, outcome) ==
    IF outcome.kind = "resolved"
      THEN pingExtract([call EXCEPT !.awaited = "resolved",
                                    !.content = outcome.content],
                       outcome.content)
      ELSE pingCaught([call EXCEPT !.awaited = "rejected", !.err = outcome.err],
                      outcome.err)

PingResume(i, outcome) ==
    /\ calls[i].op = "ping"
    /\ calls[i].pc = "awaitCallTool"
    /\ calls' = [calls EXCEPT ![i] = pingSettled(calls[i], outcome)]
    /\ UNCHANGED <<client, transport, transports, clients>>

\* ---------------------------------------------------------------- stop()
\* a guard that skips a transport that was already closed
stopHasTransport_once(t) == t # null /\ transports[t].closeCalls = 0

\* a guard that also requires the current client to be connected
stopHasTransport_connected(t) == t # null /\ clients[client].connected

stopHasTransport(t) == t # null

\* stop() without the null check: calling close on null faults
StopBegin_noGuard ==
    /\ Len(calls) < MaxCalls
    /\ IF transport # null
         THEN /\ transports' = [transports EXCEPT ![transport].closeCalls = @ + 1]
              /\ calls' = Append(calls,
                    [NewCall("stop") EXCEPT
                        !.pc = "awaitClose",
                        !.tr = transport,
                        !.awaited = "pending"])
         ELSE /\ calls' = Append(calls,
                    [NewCall("stop") EXCEPT
                        !.status = "rejected", !.value = TypeError])
              /\ UNCHANGED transports
    /\ UNCHANGED <<client, transport, clients>>

\* stop() clearing both fields before it closes the transport
StopBegin_release ==
    /\ Len(calls) < MaxCalls
    /\ IF transport # null
         THEN /\ transports' = [transports EXCEPT ![transport].closeCalls = @ + 1]
              /\ calls' = Append(calls,
                    [NewCall("stop") EXCEPT
                        !.pc = "awaitClose",
                        !.tr = transport,
                        !.awaited = "pending"])
         ELSE /\ calls' = Append(calls,
                    [NewCall("stop") EXCEPT
                        !.status = "fulfilled", !.value = undefined])
              /\ UNCHANGED transports
    /\ client' = null
    /\ transport' = null
    /\ UNCHANGED clients

StopBegin ==
    /\ Len(calls) < MaxCalls
    /\ IF stopHasTransport(transport)
         THEN /\ transports' = [transports EXCEPT ![transport].closeCalls = @ + 1]
              /\ calls' = Append(calls,
                    [NewCall("stop") EXCEPT
                        !.pc = "awaitClose",
                        !.tr = transport,
                        !.awaited = "pending"])
         ELSE /\ calls' = Append(calls,
                    [NewCall("stop") EXCEPT
                        !.status = "fulfilled", !.value = undefined])
              /\ UNCHANGED transports
    /\ UNCHANGED <<client, transport, clients>>

\* the continuation of stop() once close has settled; stop() has no catch
stopSettled(call, outcome) ==
    IF outcome = "ok"
      THEN [call EXCEPT !.pc = "done", !.awaited = "resolved",
                        !.log = @ \o <<Line("log", "Transport closed.", <<>>)>>,
                        !.status = "fulfilled", !.value = undefined]
      ELSE [call EXCEPT !.pc = "done", !.awaited = "rejected", !.err = outcome,
                        !.status = "rejected", !.value = outcome]

\* stop() clearing both fields once close has settled
StopResume_clears(i, outcome) ==
    /\ calls[i].op = "stop"
    /\ calls[i].pc = "awaitClose"
    /\ calls' = [calls EXCEPT ![i] = stopSettled(calls[i], outcome)]
    /\ client' = null
    /\ transport' = null
    /\ UNCHANGED <<transports, clients>>

\* stop() clearing only the transport field once close has settled
StopResume_clearsTransport(i, outcome) ==
    /\ calls[i].op = "stop"
    /\ calls[i].pc = "awaitClose"
    /\ calls' = [calls EXCEPT ![i] = stopSettled(calls[i], outcome)]
    /\ transport' = null
    /\ UNCHANGED <<client, transports, clients>>

StopResume(i, outcome) ==
    /\ calls[i].op = "stop"
    /\ calls[i].pc = "awaitClose"
    /\ calls' = [calls EXCEPT ![i] = stopSettled(calls[i], outcome)]
    /\ UNCHANGED <<client, transport, transports, clients>>

\* ------------------------------------------------------------ the system
Init ==
    /\ client = null
    /\ transport = null
    /\ transports = <<>>
    /\ clients = <<>>
    /\ calls = <<>>

Next ==
    \/ \E pyExists \in BOOLEAN, scExists \in BOOLEAN : StartBegin(pyExists, scExists)
    \/ \E i \in DOMAIN calls, outcome \in {"ok"} \cup Errors : StartResume(i, outcome)
    \/ PingBegin
    \/ \E i \in DOMAIN calls, outcome \in CallToolOutcomes : PingResume(i, outcome)
    \/ StopBegin
    \/ \E i \in DOMAIN calls, outcome \in {"ok"} \cup Errors : StopResume(i, outcome)

Spec == Init /\ [][Next]_vars

\* The same system with callTool results of at most one content element: the
\* claims about the lifecycle (which handles exist, which are current, which
\* are closed) read nothing of a result beyond what pingAgent() returns.
LifecycleCallToolOutcomes ==
    { o \in CallToolOutcomes : Len(o.content) <= 1 }

NextLifecycle ==
    \/ \E pyExists \in BOOLEAN, scExists \in BOOLEAN : StartBegin(pyExists, scExists)
    \/ \E i \in DOMAIN calls, outcome \in {"ok"} \cup Errors : StartResume(i, outcome)
    \/ PingBegin
    \/ \E i \in DOMAIN calls, outcome \in LifecycleCallToolOutcomes : PingResume(i, outcome)
    \/ StopBegin
    \/ \E i \in DOMAIN calls, outcome \in {"ok"} \cup Errors : StopResume(i, outcome)

SpecLifecycle == Init /\ [][NextLifecycle]_vars

\* ------------------------------------------------- reading the call history
\* calls is in invocation order: call j was invoked before call i iff j < i
StartedBefore(i) == \E j \in 1..(i - 1) : calls[j].op = "start"

\* the latest start() invoked before call i, or 0 when there is none
LastStart(i) ==
    CHOOSE j \in 0..(i - 1) :
        /\ j = 0 \/ calls[j].op = "start"
        /\ \A k \in (j + 1)..(i - 1) : calls[k].op # "start"

IsMissingFileLine(l) ==
    /\ l.level = "error"
    /\ l.msg \in { "Critical Error: Python not found at",
                   "Run uv sync in agents/transcriber/ to create the venv.",
                   "Critical Error: Script not found at" }

IsOtherLine(l) == ~IsMissingFileLine(l)

\* ------------------------------------------------------------------ C1
\* C1: start() never rejects: whatever connect does, a start() that has
\* completed is fulfilled with the empty result, and a suspended one is pending.
C1_StartAlwaysResolves ==
    \A i \in DOMAIN calls :
        calls[i].op = "start" =>
            /\ calls[i].status # "rejected"
            /\ calls[i].pc = "done" =>
                   calls[i].status = "fulfilled" /\ calls[i].value = undefined

\* a start() invoked after earlier calls whose connect rejected and which completed
C1_Witness ==
    \E i \in DOMAIN calls :
        /\ i > 1
        /\ calls[i].op = "start"
        /\ calls[i].pc = "done"
        /\ calls[i].awaited = "rejected"
        /\ calls[i].err \in Errors

\* ------------------------------------------------------------------ C2
\* C2: pingAgent() invoked before any start() returns the sentinel string as a
\* normal value without awaiting anything, and no callTool is issued: every
\* callTool a client received comes from a pingAgent() that found that client.
C2_PingBeforeStartSentinel ==
    /\ \A i \in DOMAIN calls :
          (calls[i].op = "ping" /\ ~StartedBefore(i)) =>
              /\ calls[i].pc = "done"
              /\ calls[i].status = "fulfilled"
              /\ calls[i].value = ClientNotInitialized
              /\ calls[i].awaited = "none"
              /\ calls[i].cl = null
    /\ \A c \in DOMAIN clients :
          Len(clients[c].toolCalls) =
              Cardinality({ i \in DOMAIN calls :
                              calls[i].op = "ping" /\ calls[i].cl = c })

\* a pingAgent() before any start(), followed by a start() and a real ping
C2_Witness ==
    /\ Len(calls) >= 3
    /\ calls[1].op = "ping" /\ calls[1].value = ClientNotInitialized
    /\ calls[2].op = "start"
    /\ calls[3].op = "ping" /\ calls[3].cl # null

\* ------------------------------------------------------------------ C3
\* C3 as stated: a rejected callTool is rethrown as the same error object by
\* pingAgent(), and neither start() nor stop() ever rejects.
C3_OnlyPingPropagates ==
    /\ \A i \in DOMAIN calls :
          (calls[i].op = "ping" /\ calls[i].awaited = "rejected") =>
              calls[i].status = "rejected" /\ calls[i].value = calls[i].err
    /\ \A i \in DOMAIN calls :
          calls[i].op \in {"start", "stop"} => calls[i].status # "rejected"

\* C3 amended: a rejected callTool is rethrown as the same error object by
\* pingAgent(); start() never rejects; stop() awaits close without a catch, so
\* it rejects exactly when close rejects, with the error close rejected with.
C3_PingRethrowsSameError ==
    /\ \A i \in DOMAIN calls :
          (calls[i].op = "ping" /\ calls[i].awaited = "rejected") =>
              calls[i].status = "rejected" /\ calls[i].value = calls[i].err
    /\ \A i \in DOMAIN calls :
          calls[i].op = "start" => calls[i].status # "rejected"
    /\ \A i \in DOMAIN calls :
          calls[i].op = "stop" =>
              /\ calls[i].status = "rejected" <=> calls[i].awaited = "rejected"
              /\ calls[i].status = "rejected" => calls[i].value = calls[i].err

\* callTool rejected with the second error object and pingAgent() rejected,
\* and a stop() whose close rejected
C3_Witness ==
    /\ \E i \in DOMAIN calls :
          /\ calls[i].op = "ping"
          /\ calls[i].awaited = "rejected"
          /\ calls[i].err = "e2"
          /\ calls[i].status = "rejected"
    /\ \E i \in DOMAIN calls :
          /\ calls[i].op = "stop"
          /\ calls[i].awaited = "rejected"

\* ------------------------------------------------------------------ C4
\* C4: when callTool resolves with at least one content element, pingAgent()
\* is fulfilled with exactly the text field of the first element.
C4_PingReturnsFirstText ==
    \A i \in DOMAIN calls :
        ( /\ calls[i].op = "ping"
          /\ calls[i].awaited = "resolved"
          /\ Len(calls[i].content) >= 1 ) =>
            /\ calls[i].pc = "done"
            /\ calls[i].status = "fulfilled"
            /\ calls[i].value = calls[i].content[1].text

\* a ping whose result has two elements with different text fields
C4_Witness ==
    \E i \in DOMAIN calls :
        /\ calls[i].op = "ping"
        /\ calls[i].awaited = "resolved"
        /\ Len(calls[i].content) = 2
        /\ calls[i].content[1].text = "pong"
        /\ calls[i].content[2].text # "pong"
        /\ calls[i].status = "fulfilled"

\* ------------------------------------------------------------------ C5
\* C5: once a start() has run, every stop() invokes close once on the transport
\* that is current at that moment: the close count of each transport is the
\* number of stop() calls invoked while it was the current transport.
C5_StopClosesOncePerCall ==
    \A t \in DOMAIN transports :
        transports[t].closeCalls =
            Cardinality({ i \in DOMAIN calls :
                            /\ calls[i].op = "stop"
                            /\ LastStart(i) # 0
                            /\ calls[LastStart(i)].tr = t })

\* start() followed by two stop() calls: the transport was closed twice
C5_Witness ==
    /\ Len(calls) >= 3
    /\ calls[1].op = "start"
    /\ calls[2].op = "stop"
    /\ calls[3].op = "stop"
    /\ transports[calls[1].tr].closeCalls = 2

\* ------------------------------------------------------------------ C6
\* C6: a stop() invoked before any start() completes at once, fulfilled, having
\* awaited no close; and as long as no start() was invoked the manager is still
\* in its initial state (both fields null, no transport or client touched).
C6_StopBeforeStartNoop ==
    /\ \A i \in DOMAIN calls :
          (calls[i].op = "stop" /\ ~StartedBefore(i)) =>
              /\ calls[i].pc = "done"
              /\ calls[i].status = "fulfilled"
              /\ calls[i].value = undefined
              /\ calls[i].awaited = "none"
              /\ calls[i].tr = null
    /\ (\A i \in DOMAIN calls : calls[i].op # "start") =>
          /\ client = null
          /\ transport = null
          /\ transports = <<>>
          /\ clients = <<>>

\* two stop() calls on a manager that was never started
C6_Witness ==
    /\ Len(calls) >= 2
    /\ \A i \in DOMAIN calls : calls[i].op # "start"
    /\ calls[1].op = "stop" /\ calls[2].op = "stop"
    /\ calls[2].status = "fulfilled"

\* ------------------------------------------------------------------ C7
\* C7: whatever files exist, start() constructs its transport with the fixed
\* interpreter and script paths and calls connect with it; the log of a start()
\* with a missing file is the log without it plus the missing-file error lines.
C7_StartProceedsWhenFilesMissing ==
    \A i \in DOMAIN calls :
        calls[i].op = "start" =>
            /\ calls[i].tr \in DOMAIN transports
            /\ calls[i].cl \in DOMAIN clients
            /\ transports[calls[i].tr].command = pythonPath
            /\ transports[calls[i].tr].args = <<scriptPath>>
            /\ clients[calls[i].cl].connectCalls = <<calls[i].tr>>
            /\ calls[i].awaited # "none"
            /\ SubSeq(SelectSeq(calls[i].log, IsOtherLine), 1, 3) = startPrefixLog
            /\ Len(SelectSeq(calls[i].log, IsOtherLine)) =
                   (IF calls[i].pc = "done" THEN 4 ELSE 3)
            /\ Len(SelectSeq(calls[i].log, IsMissingFileLine)) =
                   (IF calls[i].pyExists THEN 0 ELSE 2)
                   + (IF calls[i].scExists THEN 0 ELSE 1)

\* a start() with both files missing that constructed the transport and
\* whose connect attempt has settled
C7_Witness ==
    \E i \in DOMAIN calls :
        /\ calls[i].op = "start"
        /\ ~calls[i].pyExists
        /\ ~calls[i].scExists
        /\ calls[i].pc = "done"
        /\ calls[i].tr \in DOMAIN transports
        /\ Len(calls[i].log) = 7

\* ------------------------------------------------------------------ C8
\* C8 as stated: client is non-null iff some start() has completed its
\* connection attempt.
C8_ClientIffAttemptCompleted ==
    (client # null) <=>
        (\E i \in DOMAIN calls : calls[i].op = "start" /\ calls[i].pc = "done")

\* C8 amended: client is non-null iff some start() has begun its connection
\* attempt, completed or still awaiting connect.
C8_ClientIffStartBegun ==
    (client # null) <=> (\E i \in DOMAIN calls : calls[i].op = "start")

\* a start() suspended awaiting connect (none completed), a stop() that has
\* completed meanwhile, and client already non-null
C8_Witness ==
    /\ client # null
    /\ \E i \in DOMAIN calls : calls[i].op = "start" /\ calls[i].pc = "awaitConnect"
    /\ \A i \in DOMAIN calls : calls[i].op = "start" => calls[i].pc # "done"
    /\ \E i \in DOMAIN calls :
          calls[i].op = "stop" /\ calls[i].pc = "done" /\ calls[i].tr # null

\* ------------------------------------------------------------------ C9
\* C9 as stated: at most one transport is ever open (constructed and never
\* closed) and at most one client handle is ever created per instance.
C9_OneTransportOneClient ==
    /\ Cardinality({ t \in DOMAIN transports : transports[t].closeCalls = 0 }) <= 1
    /\ Len(clients) <= 1

\* ------------------------------------------------------------------ C10
\* C10: when callTool resolves with an empty content sequence, pingAgent()
\* returns no value: it rejects with the fault of reading the first element,
\* which is neither the sentinel nor an error of the collaborator.
C10_EmptyContentFaults ==
    \A i \in DOMAIN calls :
        ( /\ calls[i].op = "ping"
          /\ calls[i].awaited = "resolved"
          /\ calls[i].content = <<>> ) =>
            /\ calls[i].pc = "done"
            /\ calls[i].status = "rejected"
            /\ calls[i].value = TypeError
            /\ calls[i].value \notin Errors \cup {ClientNotInitialized}

\* a ping whose callTool resolved with an empty content sequence
C10_Witness ==
    \E i \in DOMAIN calls :
        /\ calls[i].op = "ping"
        /\ calls[i].awaited = "resolved"
        /\ calls[i].content = <<>>
        /\ calls[i].pc = "done"

\* ---------------------------------------------------- more history readers
StartCalls == { i \in DOMAIN calls : calls[i].op = "start" }

\* the start() invoked next after start() i, or Len(calls) + 1 when i is the latest
NextStart(i) ==
    CHOOSE j \in (i + 1)..(Len(calls) + 1) :
        /\ j = Len(calls) + 1 \/ calls[j].op = "start"
        /\ \A k \in (i + 1)..(j - 1) : calls[k].op # "start"

\* the latest start() invoked so far, or 0
LatestStart == LastStart(Len(calls) + 1)

\* ------------------------------------------------------------------ C11
\* C11: a start() invoked after another start() replaces both fields with new
\* handles and does not close the replaced transport, and no stop() invoked
\* after the replacement closes it: the close count of a replaced transport is
\* the number of stop() calls invoked between its start() and the next start().
C11_SecondStartLeaksFirstTransport ==
    \A i \in DOMAIN calls :
      calls[i].op = "start" =>
        LET j == NextStart(i)
        IN  j <= Len(calls) =>
                /\ calls[j].tr # calls[i].tr
                /\ calls[j].cl # calls[i].cl
                /\ transport # calls[i].tr
                /\ client # calls[i].cl
                /\ transports[calls[i].tr].closeCalls =
                       Cardinality({ k \in (i + 1)..(j - 1) :
                                        calls[k].op = "stop" })

\* start(), start(), stop(): the stop() has closed the second transport and
\* the first one was never closed
C11_Witness ==
    /\ Len(calls) >= 3
    /\ calls[1].op = "start"
    /\ calls[2].op = "start"
    /\ calls[3].op = "stop"
    /\ calls[3].pc = "done"
    /\ transports[calls[1].tr].closeCalls = 0
    /\ transports[calls[2].tr].closeCalls = 1

\* ------------------------------------------------------------------ C12
\* C12: stop() never assigns a field: at every moment both fields hold the
\* handles of the latest start() invoked (or null when there is none), however
\* many stop() calls were invoked or completed since.
C12_StopLeavesFields ==
    LET i == LatestStart
    IN  IF i = 0
          THEN client = null /\ transport = null
          ELSE client = calls[i].cl /\ transport = calls[i].tr

\* a stop() that closed the current transport has completed, the fields still
\* hold that transport and its client
C12_Witness ==
    \E k \in DOMAIN calls :
        /\ calls[k].op = "stop"
        /\ calls[k].pc = "done"
        /\ calls[k].awaited = "resolved"
        /\ calls[k].tr = transport
        /\ transport # null
        /\ client # null

\* ------------------------------------------------------------------ C13
\* C13: of two start() calls the one invoked last holds the fields, whichever
\* completes first, and nothing is cancelled: every start() calls connect once,
\* on its own client with its own transport, and when it completes the outcome
\* of that connect is recorded on its own client.
C13_OverlappingStartsLastWriteWins ==
    /\ \A i \in DOMAIN calls, j \in DOMAIN calls :
          (i < j /\ calls[i].op = "start" /\ calls[j].op = "start") =>
              /\ calls[i].tr # calls[j].tr
              /\ calls[i].cl # calls[j].cl
              /\ transport # calls[i].tr
              /\ client # calls[i].cl
    /\ \A i \in DOMAIN calls :
        calls[i].op = "start" =>
          /\ clients[calls[i].cl].connectCalls = <<calls[i].tr>>
          /\ calls[i].pc \in {"awaitConnect", "done"}
          /\ calls[i].pc = "awaitConnect" => calls[i].awaited = "pending"
          /\ calls[i].pc = "done" =>
                /\ calls[i].awaited \in {"resolved", "rejected"}
                /\ clients[calls[i].cl].connected = (calls[i].awaited = "resolved")
    /\ LET i == LatestStart
       IN  i # 0 => (transport = calls[i].tr /\ client = calls[i].cl)

\* the second start() was invoked while the first was suspended and has
\* completed; the first is still awaiting its own connect, and the fields
\* hold the second call's handles
C13_Witness ==
    /\ Len(calls) >= 2
    /\ calls[1].op = "start" /\ calls[2].op = "start"
    /\ calls[1].pc = "awaitConnect" /\ calls[1].status = "pending"
    /\ calls[2].pc = "done" /\ calls[2].awaited = "rejected"
    /\ clients[calls[1].cl].connectCalls = <<calls[1].tr>>
    /\ transport = calls[2].tr
    /\ client = calls[2].cl

\* ------------------------------------------------------------------ C14
\* C14: only stop() closes a transport: every close a transport received was
\* invoked by a stop() call that found it in the transport field; a start()
\* whose connect failed, with no stop() invoked since, leaves its transport
\* never closed and stored in the transport field.
C14_OnlyStopCloses ==
    /\ \A t \in DOMAIN transports :
          transports[t].closeCalls =
              Cardinality({ k \in DOMAIN calls :
                              calls[k].op = "stop" /\ calls[k].tr = t })
    /\ \A i \in DOMAIN calls :
          ( /\ calls[i].op = "start"
            /\ calls[i].awaited = "rejected"
            /\ \A k \in (i + 1)..Len(calls) : calls[k].op = "ping" ) =>
              /\ transports[calls[i].tr].closeCalls = 0
              /\ transport = calls[i].tr

\* a start() whose connect failed, followed by a ping whose callTool was
\* rejected: the transport is still unclosed and current
C14_Witness ==
    \E i \in StartCalls :
        /\ calls[i].awaited = "rejected"
        /\ i < Len(calls)
        /\ \A k \in (i + 1)..Len(calls) :
              calls[k].op = "ping" /\ calls[k].pc = "done"
        /\ transports[calls[i].tr].closeCalls = 0
        /\ transport = calls[i].tr

\* ------------------------------------------------------------------ C15
\* C15: a start() whose connect failed is fulfilled like a successful one and
\* leaves its unconnected client in the client field; every pingAgent() invoked
\* after a start() finds that start's client, issues callTool on it and awaits
\* it instead of returning the sentinel, whether that client is connected or not.
C15_FailedStartLeavesClient ==
    /\ \A i \in DOMAIN calls :
          (calls[i].op = "start" /\ calls[i].awaited = "rejected") =>
              /\ calls[i].status = "fulfilled"
              /\ calls[i].value = undefined
              /\ ~clients[calls[i].cl].connected
              /\ NextStart(i) > Len(calls) => client = calls[i].cl
    /\ \A k \in DOMAIN calls :
          (calls[k].op = "ping" /\ StartedBefore(k)) =>
              /\ calls[k].cl = calls[LastStart(k)].cl
              /\ calls[k].awaited # "none"
              /\ calls[k].status = "fulfilled" =>
                     calls[k].value = calls[k].content[1].text
              /\ Len(clients[calls[k].cl].toolCalls) >= 1
              /\ \A n \in DOMAIN clients[calls[k].cl].toolCalls :
                     clients[calls[k].cl].toolCalls[n] = PingRequest

\* the only start() failed to connect; a ping was issued on its unconnected
\* client and was answered with a text
C15_Witness ==
    /\ Len(calls) >= 2
    /\ calls[1].op = "start"
    /\ calls[1].pc = "done"
    /\ calls[1].awaited = "rejected"
    /\ calls[2].op = "ping"
    /\ calls[2].cl = calls[1].cl
    /\ ~clients[calls[2].cl].connected
    /\ clients[calls[2].cl].toolCalls = <<PingRequest>>
    /\ calls[2].status = "fulfilled"
    /\ calls[2].value = "pong"

\* ------------------------------------------------------------------ C16
\* C16: in every state the transport field is null iff the client field is
\* null, and when set they are the pair constructed by one and the same start().
C16_TransportIffClient ==
    /\ (transport = null) <=> (client = null)
    /\ transport # null =>
          \E i \in DOMAIN calls :
              /\ calls[i].op = "start"
              /\ calls[i].tr = transport
              /\ calls[i].cl = client

\* start() suspended awaiting connect after a stop() has completed: both
\* fields are set
C16_Witness ==
    /\ transport # null
    /\ client # null
    /\ \E i \in StartCalls : calls[i].pc = "awaitConnect"
    /\ \E k \in DOMAIN calls :
          calls[k].op = "stop" /\ calls[k].pc = "done" /\ calls[k].tr # null

\* ------------------------------------------------------------------ C17
\* C17: once a start() has been invoked neither field is null again, and no
\* pingAgent() invoked after a start() is answered by the sentinel return: it
\* finds a client, awaits callTool, and its result is what callTool produced
\* (the first text, the rejection error, or the fault on an empty content).
C17_FieldsNeverNullAgain ==
    /\ StartedBefore(Len(calls) + 1) => (client # null /\ transport # null)
    /\ \A k \in DOMAIN calls :
          (calls[k].op = "ping" /\ StartedBefore(k)) =>
              /\ calls[k].cl # null
              /\ calls[k].awaited # "none"
              /\ calls[k].pc = "done" =>
                     calls[k].value = IF calls[k].awaited = "rejected"
                                        THEN calls[k].err
                                        ELSE IF calls[k].content = <<>>
                                               THEN TypeError
                                               ELSE calls[k].content[1].text

\* start(), then a stop() that completed, then a ping: the ping found the client
C17_Witness ==
    /\ Len(calls) >= 3
    /\ calls[1].op = "start"
    /\ calls[2].op = "stop" /\ calls[2].pc = "done"
    /\ calls[3].op = "ping" /\ calls[3].cl = calls[1].cl
    /\ client # null /\ transport # null

\* ------------------------------------------------------------------ C18
\* C18: a stop() invoked after a start() closes the transport of the latest
\* start() also when that start() is still awaiting connect; the start() stays
\* suspended on its connect (nothing is cancelled) and, once connect settles
\* either way, is fulfilled with the empty result.
C18_StopDuringStart ==
    \A k \in DOMAIN calls :
        (calls[k].op = "stop" /\ StartedBefore(k)) =>
          LET i == LastStart(k)
          IN
            /\ calls[k].tr = calls[i].tr
            /\ calls[k].awaited # "none"
            /\ transports[calls[i].tr].closeCalls >= 1
            /\ calls[i].pc = "awaitConnect" =>
                   calls[i].status = "pending" /\ calls[i].awaited = "pending"
            /\ calls[i].pc = "done" =>
                   /\ calls[i].status = "fulfilled"
                   /\ calls[i].value = undefined
                   /\ calls[i].awaited \in {"resolved", "rejected"}

\* a stop() has closed the transport and completed while the start() that
\* constructed it is still awaiting connect
C18_Witness ==
    /\ Len(calls) >= 2
    /\ calls[1].op = "start"
    /\ calls[1].pc = "awaitConnect"
    /\ calls[2].op = "stop"
    /\ calls[2].pc = "done"
    /\ calls[2].tr = calls[1].tr
    /\ transports[calls[1].tr].closeCalls = 1
====
